---- MODULE Spec2Model ----
(***************************************************************************)
(* Safety wrappers around a black-box completion endpoint.                 *)
(*                                                                         *)
(* Two specifications over one set of variables:                           *)
(*   Spec      the /query handler of backend/main.py driving one request:  *)
(*             wrapper selection, budget resolution, keyword pre-check,    *)
(*             the model-call loop, the trace record and the response;     *)
(*   SpecWrap  a wrapper object of backend/wrappers driven directly by     *)
(*             step() and reset() calls: a first run, a reset, and a       *)
(*             replay of the same inputs.                                  *)
(*                                                                         *)
(* Text is a sequence of one-character strings, so that str.strip(),       *)
(* str.lower() and the substring test are computed, not assumed.           *)
(***************************************************************************)
EXTENDS Integers, Sequences, FiniteSets, TLC

VARIABLES
  cfg,                \* the loaded configuration document (_CONFIG)
  pc,                 \* where the request is: INIT, CALLING, or how it ended
  req,                \* the QueryRequest being served
  prompt,             \* the stripped prompt
  wrapper_name,       \* the resolved wrapper name
  wrapper,            \* the wrapper instance of this request
  max_calls,          \* the resolved call budget
  raw_outputs,        \* raw model outputs, in order
  decisions_sequence, \* one action per wrapper step of the loop
  final_output,
  call_index,
  response,           \* what the caller receives
  traces,             \* the lines appended to the trace file
  model_calls,        \* how many times model_complete was invoked
  step_calls,         \* how many times wrapper.step was invoked
  hphase,             \* SpecWrap: "run" (first run) or "replay"
  hwrapper,           \* SpecWrap: the wrapper object under test
  hinputs,            \* SpecWrap: the inputs of the first run
  hrun1,              \* SpecWrap: the results of the first run
  hrun2,              \* SpecWrap: the results of the replay
  hstate1,            \* SpecWrap: get_state() at the end of the first run
  hallowed,           \* SpecWrap: stripped outputs allowed since the last reset
  hlast,              \* SpecWrap: the last step: its input, result and buffers
  inflight,           \* SpecConc: the run of each request being served
  objects,            \* SpecConc: the wrapper objects get_wrapper has built
  running,            \* SpecConc: the request the event loop runs (0: none)
  trace_file          \* SpecConc: the lines of the trace file

vars == << cfg, pc, req, prompt, wrapper_name, wrapper, max_calls, raw_outputs,
           decisions_sequence, final_output, call_index, response, traces,
           model_calls, step_calls,
           hphase, hwrapper, hinputs, hrun1, hrun2, hstate1, hallowed, hlast,
           inflight, objects, running, trace_file >>

orchVars == << pc, req, prompt, wrapper_name, wrapper, max_calls, raw_outputs,
               decisions_sequence, final_output, call_index, response, traces,
               model_calls, step_calls >>

harnessVars == << hphase, hwrapper, hinputs, hrun1, hrun2, hstate1, hallowed, hlast >>

concVars == << inflight, objects, running, trace_file >>

(***************************************************************************)
(* Bounds of the model.                                                    *)
(***************************************************************************)
\* Longest prompt a request carries.
MaxPromptLen == 2
\* Longest first run of the wrapper harness.
MaxSteps == 2

(***************************************************************************)
(* Text.                                                                   *)
(***************************************************************************)
Chars == {"a", "A", " "}

Whitespace == {" "}

LowerChar(c) == IF c = "A" THEN "a" ELSE c

\* str.lower()
Lower(s) == [i \in 1..Len(s) |-> LowerChar(s[i])]

\* Strip with the stripping forgotten
StripNothing(s) == s

\* str.strip(): leading and trailing whitespace removed
Strip(s) ==
  LET keep == {i \in 1..Len(s) : s[i] \notin Whitespace}
  IN  IF keep = {} THEN << >>
      ELSE LET lo == CHOOSE i \in keep : \A j \in keep : i <= j
               hi == CHOOSE i \in keep : \A j \in keep : j <= i
           IN  SubSeq(s, lo, hi)

\* Python's `sub in text` on strings
IsSubstr(sub, text) ==
  \E i \in 0..(Len(text) - Len(sub)) : SubSeq(text, i + 1, i + Len(sub)) = sub

\* Python's `x in list`
InList(x, list) == \E i \in 1..Len(list) : list[i] = x

StringsUpTo(n) == UNION {[1..m -> Chars] : m \in 0..n}

(***************************************************************************)
(* Optional values: {} is an absent key (None), {v} a present one.         *)
(***************************************************************************)
\* dict.get(key, default)
Get(opt, default) == IF opt = {} THEN default ELSE CHOOSE v \in opt : TRUE

(***************************************************************************)
(* Actions (backend/wrappers/base.py).                                     *)
(***************************************************************************)
ALLOW == "ALLOW"

BLOCK == "BLOCK"

MODIFY == "MODIFY"

REQUERY == "REQUERY"

Action == {ALLOW, BLOCK, MODIFY, REQUERY}

(***************************************************************************)
(* Program constants.                                                      *)
(***************************************************************************)
\* HistoryWrapper's k when the configuration names none
DefaultK == 3
\* the budget when the configuration names no max_queries
DefaultMaxQueries == 2
\* the range a caller-supplied max_queries is accepted in
UserLimitMin == 1
UserLimitMax == 10

BLOCK_MESSAGE == << "[Blocked by keyword wrapper]" >>

EMPTY_PROMPT_OUTPUT == << "[Empty prompt]" >>

\* wrappers.default when the configuration names none
DefaultWrapper == "noop"

WRAPPERS == {"noop", "keyword", "history", "query_budget"}

(***************************************************************************)
(* The wrappers: constructor, reset, step, get_state.  A step returns the  *)
(* action, the text to use and the wrapper as the step leaves it.          *)
(***************************************************************************)
NoopWrapper(config) == [name |-> "noop"]

NoopReset(w) == w

\* NoopStep handing back the output with its whitespace stripped
NoopStepStrips(w, user_prompt, model_output, idx) ==
  [action |-> ALLOW, text |-> Strip(model_output), w |-> w]

NoopStep(w, user_prompt, model_output, idx) ==
  [action |-> ALLOW, text |-> model_output, w |-> w]

NoopGetState(w) == [type |-> "stateless"]

KeywordWrapper(config) ==
  [name |-> "keyword",
   keywords |-> [i \in 1..Len(config.banned_keywords) |->
                   Lower(config.banned_keywords[i])]]

KeywordReset(w) == w

\* KeywordStep matching the prompt as typed, not lower-cased
KeywordStepCaseSensitive(w, user_prompt, model_output, idx) ==
  IF \E i \in 1..Len(w.keywords) : IsSubstr(w.keywords[i], user_prompt)
  THEN [action |-> BLOCK, text |-> BLOCK_MESSAGE, w |-> w]
  ELSE [action |-> ALLOW, text |-> model_output, w |-> w]

KeywordStep(w, user_prompt, model_output, idx) ==
  LET prompt_lower == Lower(user_prompt)
  IN  IF \E i \in 1..Len(w.keywords) : IsSubstr(w.keywords[i], prompt_lower)
      THEN [action |-> BLOCK, text |-> BLOCK_MESSAGE, w |-> w]
      ELSE [action |-> ALLOW, text |-> model_output, w |-> w]

KeywordGetState(w) == [banned_keywords |-> w.keywords]

HistoryWrapper(config) ==
  [name |-> "history", k |-> Get(config.k, DefaultK), buffer |-> << >>]

\* HistoryReset leaving the buffer as it is
HistoryResetKeepsBuffer(w) == w

HistoryReset(w) == [w EXCEPT !.buffer = << >>]

\* HistoryPush evicting one entry too early (>= for >)
HistoryPushEvictsEarly(buffer, k, x) ==
  LET appended == Append(buffer, x)
  IN  IF Len(appended) >= k THEN Tail(appended) ELSE appended

\* self._buffer.append(x); if len(self._buffer) > self._k: self._buffer.pop(0)
HistoryPush(buffer, k, x) ==
  LET appended == Append(buffer, x)
  IN  IF Len(appended) > k THEN Tail(appended) ELSE appended

\* HistoryStep moving a repeated output to the back of the buffer
HistoryStepRefreshesDuplicate(w, user_prompt, model_output, idx) ==
  LET out_stripped == Strip(model_output)
  IN  IF out_stripped = << >>
      THEN [action |-> REQUERY, text |-> << >>, w |-> w]
      ELSE IF InList(out_stripped, w.buffer)
      THEN [action |-> REQUERY, text |-> << >>,
            w |-> [w EXCEPT !.buffer = HistoryPush(w.buffer, w.k, out_stripped)]]
      ELSE [action |-> ALLOW, text |-> model_output,
            w |-> [w EXCEPT !.buffer = HistoryPush(w.buffer, w.k, out_stripped)]]

\* HistoryStep handing back the stripped output on ALLOW
HistoryStepReturnsStripped(w, user_prompt, model_output, idx) ==
  LET out_stripped == Strip(model_output)
  IN  IF out_stripped = << >>
      THEN [action |-> REQUERY, text |-> << >>, w |-> w]
      ELSE IF InList(out_stripped, w.buffer)
      THEN [action |-> REQUERY, text |-> << >>, w |-> w]
      ELSE [action |-> ALLOW, text |-> out_stripped,
            w |-> [w EXCEPT !.buffer = HistoryPush(w.buffer, w.k, out_stripped)]]

\* HistoryStep remembering the outputs it rejects as empty
HistoryStepRemembersBlank(w, user_prompt, model_output, idx) ==
  LET out_stripped == Strip(model_output)
  IN  IF out_stripped = << >>
      THEN [action |-> REQUERY, text |-> << >>,
            w |-> [w EXCEPT !.buffer = HistoryPush(w.buffer, w.k, out_stripped)]]
      ELSE IF InList(out_stripped, w.buffer)
      THEN [action |-> REQUERY, text |-> << >>, w |-> w]
      ELSE [action |-> ALLOW, text |-> model_output,
            w |-> [w EXCEPT !.buffer = HistoryPush(w.buffer, w.k, out_stripped)]]

HistoryStep(w, user_prompt, model_output, idx) ==
  LET out_stripped == Strip(model_output)
  IN  IF out_stripped = << >>
      THEN [action |-> REQUERY, text |-> << >>, w |-> w]
      ELSE IF InList(out_stripped, w.buffer)
      THEN [action |-> REQUERY, text |-> << >>, w |-> w]
      ELSE [action |-> ALLOW, text |-> model_output,
            w |-> [w EXCEPT !.buffer = HistoryPush(w.buffer, w.k, out_stripped)]]

HistoryGetState(w) == [k |-> w.k, buffer |-> w.buffer]

QueryBudgetWrapper(config) ==
  [name |-> "query_budget",
   max_queries |-> Get(config.max_queries, DefaultMaxQueries),
   calls |-> 0]

QueryBudgetReset(w) == [w EXCEPT !.calls = 0]

\* QueryBudgetStep leaving the call counter as it was
QueryBudgetStepKeepsCount(w, user_prompt, model_output, idx) ==
  [action |-> ALLOW, text |-> model_output, w |-> w]

\* QueryBudgetStep asking for another call while the counter is below the cap
QueryBudgetStepRequeriesBelowCap(w, user_prompt, model_output, idx) ==
  [action |-> IF idx + 1 < w.max_queries THEN REQUERY ELSE ALLOW,
   text |-> model_output,
   w |-> [w EXCEPT !.calls = idx + 1]]

QueryBudgetStep(w, user_prompt, model_output, idx) ==
  [action |-> ALLOW, text |-> model_output, w |-> [w EXCEPT !.calls = idx + 1]]

QueryBudgetGetState(w) == [call_count |-> w.calls, max_queries |-> w.max_queries]

\* the method the instance's class binds
WrapperReset(w) ==
  CASE w.name = "noop" -> NoopReset(w)
    [] w.name = "keyword" -> KeywordReset(w)
    [] w.name = "history" -> HistoryReset(w)
    [] w.name = "query_budget" -> QueryBudgetReset(w)

WrapperStep(w, user_prompt, model_output, idx) ==
  CASE w.name = "noop" -> NoopStep(w, user_prompt, model_output, idx)
    [] w.name = "keyword" -> KeywordStep(w, user_prompt, model_output, idx)
    [] w.name = "history" -> HistoryStep(w, user_prompt, model_output, idx)
    [] w.name = "query_budget" -> QueryBudgetStep(w, user_prompt, model_output, idx)

WrapperGetState(w) ==
  CASE w.name = "noop" -> NoopGetState(w)
    [] w.name = "keyword" -> KeywordGetState(w)
    [] w.name = "history" -> HistoryGetState(w)
    [] w.name = "query_budget" -> QueryBudgetGetState(w)

\* get_wrapper(name, config) for a name WRAPPERS holds
get_wrapper(name, config) ==
  CASE name = "noop" -> NoopWrapper(config)
    [] name = "keyword" -> KeywordWrapper(config)
    [] name = "history" -> HistoryWrapper(config)
    [] name = "query_budget" -> QueryBudgetWrapper(config)

\* the value of `wrapper` before get_wrapper has run
NoWrapper == [name |-> "none"]

(***************************************************************************)
(* Configuration.                                                          *)
(***************************************************************************)
\* the wrappers.<name> block of the configuration; {} for any other name
get_wrapper_config(c, name) ==
  CASE name = "keyword" ->
         [banned_keywords |-> c.banned_keywords, k |-> {}, max_queries |-> {}]
    [] name = "history" ->
         [banned_keywords |-> << >>, k |-> c.k, max_queries |-> {}]
    [] name = "query_budget" ->
         [banned_keywords |-> << >>, k |-> {}, max_queries |-> c.max_queries]
    [] OTHER ->
         [banned_keywords |-> << >>, k |-> {}, max_queries |-> {}]

\* banned keyword lists a configuration may carry: none, an upper-case one,
\* one ending in whitespace beside a mixed-case one
KeywordLists ==
  { << >>,
    << << "A" >> >>,
    << << "a", " " >>, << "A", "a" >> >> }

\* wrappers.history.k: absent, negative, zero, positive
ConfigKs == { {}, {-1}, {0}, {1}, {2} }

\* wrappers.query_budget.max_queries: absent, negative, zero, positive
ConfigMaxQueries == { {}, {-1}, {0}, {1}, {3} }

Configs ==
  [banned_keywords : KeywordLists, k : ConfigKs, max_queries : ConfigMaxQueries]

(***************************************************************************)
(* Requests and the model client.                                          *)
(***************************************************************************)
\* wrapper_name: the four wrappers, an unknown name, and "" for none given
WrapperNames == WRAPPERS \cup {"bogus", ""}

\* max_queries of a request: absent, below, at the ends of and above [1,10]
RequestMaxQueries == { {}, {0}, {1}, {10}, {11} }

Requests ==
  [prompt : StringsUpTo(MaxPromptLen),
   wrapper_name : WrapperNames,
   max_queries : RequestMaxQueries]

\* what model_complete may return: empty, whitespace only, a word, and a
\* word followed by whitespace
ModelOutputs == { << >>, << " " >>, << "a" >>, << "A", " " >> }

NoRequest == [prompt |-> << >>, wrapper_name |-> "", max_queries |-> {}]

NoResponse == [kind |-> "none"]

(***************************************************************************)
(* The /query handler (backend/main.py).                                   *)
(***************************************************************************)
\* req.wrapper_name or cfg["wrappers"]["default"]
ResolveWrapperName(r) ==
  IF r.wrapper_name = "" THEN DefaultWrapper ELSE r.wrapper_name

Max(a, b) == IF a >= b THEN a ELSE b

\* ResolveMaxCalls refusing a caller's limit of exactly 10 (< for <=)
ResolveMaxCallsExclusiveUpper(c, name, user_limit) ==
  LET max_queries == Get(c.max_queries, DefaultMaxQueries)
      history_k == Get(c.k, DefaultK)
      wrapper_config == get_wrapper_config(c, name)
  IN  IF name = "query_budget"
      THEN IF user_limit # {} /\ \A u \in user_limit :
                                   UserLimitMin <= u /\ u < UserLimitMax
           THEN Get(user_limit, 0)
           ELSE Get(wrapper_config.max_queries, max_queries)
      ELSE IF name = "history"
      THEN Max(max_queries, Get(wrapper_config.k, history_k) + 2)
      ELSE max_queries

\* the call budget of a request
ResolveMaxCalls(c, name, user_limit) ==
  LET max_queries == Get(c.max_queries, DefaultMaxQueries)
      history_k == Get(c.k, DefaultK)
      wrapper_config == get_wrapper_config(c, name)
  IN  IF name = "query_budget"
      THEN IF user_limit # {} /\ \A u \in user_limit :
                                   UserLimitMin <= u /\ u <= UserLimitMax
           THEN Get(user_limit, 0)
           ELSE Get(wrapper_config.max_queries, max_queries)
      ELSE IF name = "history"
      THEN Max(max_queries, Get(wrapper_config.k, history_k) + 2)
      ELSE max_queries

\* LastDecision reporting ALLOW when the loop ran out on a REQUERY
LastDecisionSynthesized(ds) ==
  IF ds # << >> /\ ds[Len(ds)] # REQUERY THEN ds[Len(ds)] ELSE ALLOW

\* decisions_sequence[-1] if decisions_sequence else ALLOW
LastDecision(ds) == IF ds # << >> THEN ds[Len(ds)] ELSE ALLOW

\* raw_outputs[-1] if raw_outputs else ""
LastRawOutput(raw) == IF raw # << >> THEN raw[Len(raw)] ELSE << >>

\* the decision summary, as the branch taken and the numbers it prints
DecisionSummary(name, ds, num_calls, mc) ==
  LET last_decision == LastDecision(ds)
  IN  IF name = "keyword" /\ last_decision = BLOCK THEN << "keyword blocked" >>
      ELSE IF name = "keyword" /\ last_decision = ALLOW THEN << "keyword allowed" >>
      ELSE IF name = "noop" THEN << "no filter" >>
      ELSE IF name = "history"
      THEN IF InList(REQUERY, ds)
           THEN << "history requeried", num_calls >>
           ELSE << "history allowed after 1 call" >>
      ELSE IF name = "query_budget" THEN << "query budget", mc, num_calls >>
      ELSE << "decision", last_decision >>

\* the record log_trace appends (timestamp and model name left out)
TraceRecord(name, c, p, raw, ds, out, total, w) ==
  [wrapper_name |-> name,
   wrapper_config |-> get_wrapper_config(c, name),
   user_prompt |-> p,
   raw_model_outputs |-> raw,
   wrapper_decisions |-> ds,
   final_output |-> out,
   total_model_calls |-> total,
   wrapper_state |-> WrapperGetState(w)]

\* log_trace: one line appended to the trace file
log_trace(file, record) == Append(file, record)

QueryResponse(out, decision, summary, count, raw, ds) ==
  [kind |-> "ok",
   final_output |-> out,
   wrapper_decision |-> decision,
   decision_summary |-> summary,
   model_call_count |-> count,
   raw_outputs |-> raw,
   decisions_sequence |-> ds]

\* an exception leaving the handler: the HTTP status the caller sees
ErrorResponse(status) == [kind |-> "error", status |-> status]

\* lines 185-226: summary, trace record and response once the loop is left
Finish(state, name, p, mc, w, raw, ds, out, idx) ==
  /\ pc' = state
  /\ wrapper' = w
  /\ raw_outputs' = raw
  /\ decisions_sequence' = ds
  /\ final_output' = out
  /\ call_index' = idx
  /\ traces' = log_trace(traces,
                 TraceRecord(name, cfg, p, raw, ds, out, Len(raw), w))
  /\ response' = QueryResponse(out, LastDecision(ds),
                   DecisionSummary(name, ds, Len(raw), mc),
                   Len(raw), raw, ds)

\* lines 93-103: an empty prompt returns at once
QueryEmptyPrompt(r) ==
  /\ pc = "INIT"
  /\ Strip(r.prompt) = << >>
  /\ req' = r
  /\ prompt' = Strip(r.prompt)
  /\ wrapper_name' = ResolveWrapperName(r)
  /\ pc' = "SKIPPED"
  /\ response' = QueryResponse(EMPTY_PROMPT_OUTPUT, "SKIP", << "no prompt" >>,
                               0, << >>, << >>)
  /\ UNCHANGED << cfg, wrapper, max_calls, raw_outputs, decisions_sequence,
                  final_output, call_index, traces, model_calls, step_calls >>
  /\ UNCHANGED << harnessVars, concVars >>

\* line 105: get_wrapper raises ValueError for a name WRAPPERS lacks
QueryUnknownWrapper(r) ==
  /\ pc = "INIT"
  /\ Strip(r.prompt) # << >>
  /\ ResolveWrapperName(r) \notin WRAPPERS
  /\ req' = r
  /\ prompt' = Strip(r.prompt)
  /\ wrapper_name' = ResolveWrapperName(r)
  /\ pc' = "REJECTED"
  /\ response' = ErrorResponse(500)
  /\ UNCHANGED << cfg, wrapper, max_calls, raw_outputs, decisions_sequence,
                  final_output, call_index, traces, model_calls, step_calls >>
  /\ UNCHANGED << harnessVars, concVars >>

\* lines 105-152 for a known wrapper: construction, reset, budget, the
\* keyword pre-check; then the first model call, or the end of the request
QueryKnownWrapper(r) ==
  LET name == ResolveWrapperName(r)
      p == Strip(r.prompt)
      w == WrapperReset(get_wrapper(name, get_wrapper_config(cfg, name)))
      mc == ResolveMaxCalls(cfg, name, r.max_queries)
      pre == WrapperStep(w, p, << >>, 0)
  IN  /\ pc = "INIT"
      /\ p # << >>
      /\ name \in WRAPPERS
      /\ req' = r
      /\ prompt' = p
      /\ wrapper_name' = name
      /\ max_calls' = mc
      /\ step_calls' = IF name = "keyword" THEN 1 ELSE 0
      /\ IF name = "keyword" /\ pre.action = BLOCK
         THEN \* lines 124-147
              /\ pc' = "TERMINAL"
              /\ wrapper' = pre.w
              /\ traces' = log_trace(traces,
                             TraceRecord(name, cfg, p, << >>, << BLOCK >>,
                                         pre.text, 0, pre.w))
              /\ response' = QueryResponse(pre.text, BLOCK,
                               << "keyword blocked, no model call" >>,
                               0, << >>, << BLOCK >>)
              /\ UNCHANGED << raw_outputs, decisions_sequence, final_output,
                              call_index, model_calls >>
         ELSE LET w0 == IF name = "keyword" THEN pre.w ELSE w
              IN  IF 0 < mc
                  THEN \* line 156: the first model call is awaited
                       /\ pc' = "CALLING"
                       /\ wrapper' = w0
                       /\ model_calls' = 1
                       /\ UNCHANGED << raw_outputs, decisions_sequence,
                                       final_output, call_index, response, traces >>
                  ELSE \* the loop body never runs
                       /\ Finish("NOCALL", name, p, mc, w0, << >>, << >>, << >>, 0)
                       /\ UNCHANGED model_calls
      /\ UNCHANGED cfg
      /\ UNCHANGED << harnessVars, concVars >>

\* RecordDecision keeping only the action that ends the loop
RecordDecisionTerminalOnly(ds, action) ==
  IF action = REQUERY THEN ds ELSE Append(ds, action)

\* line 167: decisions_sequence.append(action.value)
RecordDecision(ds, action) == Append(ds, action)

\* lines 165-183 and what follows: the awaited model call returns `out`
ModelReturn(out) ==
  LET raw == Append(raw_outputs, out)
      res == WrapperStep(wrapper, prompt, out, call_index)
      ds == RecordDecision(decisions_sequence, res.action)
  IN  /\ pc = "CALLING"
      /\ step_calls' = step_calls + 1
      /\ IF res.action \in {ALLOW, BLOCK, MODIFY}
         THEN /\ Finish("TERMINAL", wrapper_name, prompt, max_calls,
                      res.w, raw, ds, res.text, call_index)
              /\ UNCHANGED model_calls
         ELSE IF call_index + 1 >= max_calls
         THEN /\ Finish("EXHAUSTED", wrapper_name, prompt, max_calls,
                      res.w, raw, ds, LastRawOutput(raw), call_index + 1)
              /\ UNCHANGED model_calls
         ELSE \* continue: the next model call is awaited
              /\ pc' = "CALLING"
              /\ wrapper' = res.w
              /\ raw_outputs' = raw
              /\ decisions_sequence' = ds
              /\ call_index' = call_index + 1
              /\ model_calls' = model_calls + 1
              /\ UNCHANGED << final_output, response, traces >>
      /\ UNCHANGED << cfg, req, prompt, wrapper_name, max_calls >>
      /\ UNCHANGED << harnessVars, concVars >>

\* ModelFail swallowing the exception: the loop is left and the run traced
ModelFailTraced ==
  /\ pc = "CALLING"
  /\ Finish("FAILED", wrapper_name, prompt, max_calls, wrapper, raw_outputs,
            decisions_sequence, LastRawOutput(raw_outputs), call_index)
  /\ UNCHANGED << cfg, req, prompt, wrapper_name, max_calls, model_calls, step_calls >>
  /\ UNCHANGED << harnessVars, concVars >>

\* lines 162-163: the awaited model call raises; HTTPException(502)
ModelFail ==
  /\ pc = "CALLING"
  /\ pc' = "FAILED"
  /\ response' = ErrorResponse(502)
  /\ UNCHANGED << cfg, req, prompt, wrapper_name, wrapper, max_calls, raw_outputs,
                  decisions_sequence, final_output, call_index, traces,
                  model_calls, step_calls >>
  /\ UNCHANGED << harnessVars, concVars >>

\* the requests served at once, numbered in the order they arrive
ReqIds == {1, 2}

\* the locals of a query() call that has not begun
RunIdle ==
  [pc |-> "INIT", req |-> NoRequest, prompt |-> << >>, wrapper_name |-> "",
   wref |-> 0, max_calls |-> 0, raw_outputs |-> << >>,
   decisions_sequence |-> << >>, final_output |-> << >>, call_index |-> 0,
   model_calls |-> 0, pending |-> << >>, reply |-> NoResponse, after |-> "",
   written |-> << >>, response |-> NoResponse]

ConcIdle ==
  /\ inflight = [id \in ReqIds |-> RunIdle]
  /\ objects = << >>
  /\ running = 0
  /\ trace_file = << >>

HarnessIdle ==
  /\ hphase = "off"
  /\ hwrapper = NoWrapper
  /\ hinputs = << >>
  /\ hrun1 = << >>
  /\ hrun2 = << >>
  /\ hstate1 = << >>
  /\ hallowed = << >>
  /\ hlast = << >>

Init ==
  /\ cfg \in Configs
  /\ pc = "INIT"
  /\ req = NoRequest
  /\ prompt = << >>
  /\ wrapper_name = ""
  /\ wrapper = NoWrapper
  /\ max_calls = 0
  /\ raw_outputs = << >>
  /\ decisions_sequence = << >>
  /\ final_output = << >>
  /\ call_index = 0
  /\ response = NoResponse
  /\ traces = << >>
  /\ model_calls = 0
  /\ step_calls = 0
  /\ HarnessIdle
  /\ ConcIdle

\* a request arrives: one of the three ways query() handles it
ReceiveEmptyPrompt == pc = "INIT" /\ \E r \in Requests : QueryEmptyPrompt(r)

ReceiveUnknownWrapper == pc = "INIT" /\ \E r \in Requests : QueryUnknownWrapper(r)

ReceiveKnownWrapper == pc = "INIT" /\ \E r \in Requests : QueryKnownWrapper(r)

\* the awaited model call returns
Complete == pc = "CALLING" /\ \E out \in ModelOutputs : ModelReturn(out)

Next ==
  \/ ReceiveEmptyPrompt
  \/ ReceiveUnknownWrapper
  \/ ReceiveKnownWrapper
  \/ Complete
  \/ ModelFail

Spec == Init /\ [][Next]_vars

(***************************************************************************)
(* SpecWrap: one wrapper object driven by step() and reset() directly, as  *)
(* experiments/sanity_checks.py drives KeywordWrapper.  A first run of     *)
(* steps is recorded; reset() is called; the same inputs are replayed.     *)
(***************************************************************************)
\* prompts handed to step(): one holding a letter, one holding none
HarnessPrompts == { << "A" >>, << " " >> }

\* outputs handed to step(): those of the model client, one that differs
\* from another only by leading whitespace, and a third distinct word
HarnessOutputs == ModelOutputs \cup { << " ", "a" >>, << "a", "A" >> }

HarnessCallIndexes == {0, 1}

HarnessInputs ==
  [prompt : HarnessPrompts, output : HarnessOutputs, idx : HarnessCallIndexes]

\* the buffer of a wrapper; other wrappers have none
BufferOf(w) == IF w.name = "history" THEN w.buffer ELSE << >>

\* one call of step() on the wrapper under test
HarnessApply(in) ==
  LET res == WrapperStep(hwrapper, in.prompt, in.output, in.idx)
  IN  /\ hwrapper' = res.w
      /\ hallowed' = IF hwrapper.name = "history" /\ res.action = ALLOW
                     THEN Append(hallowed, Strip(in.output))
                     ELSE hallowed
      /\ hlast' = << [input |-> in, action |-> res.action, text |-> res.text,
                      before |-> BufferOf(hwrapper), after |-> BufferOf(res.w)] >>

\* a step of the first run
HStep(in) ==
  /\ hphase = "run"
  /\ Len(hinputs) < MaxSteps
  /\ HarnessApply(in)
  /\ hinputs' = Append(hinputs, in)
  /\ hrun1' = Append(hrun1, [action |-> hlast'[1].action, text |-> hlast'[1].text])
  /\ UNCHANGED << hphase, hrun2, hstate1 >>
  /\ UNCHANGED << cfg, orchVars, concVars >>

\* the first run ends: get_state() is read and reset() is called
HReset ==
  /\ hphase = "run"
  /\ hphase' = "replay"
  /\ hstate1' = << WrapperGetState(hwrapper) >>
  /\ hwrapper' = WrapperReset(hwrapper)
  /\ hallowed' = << >>
  /\ hrun2' = << >>
  /\ UNCHANGED << hinputs, hrun1, hlast >>
  /\ UNCHANGED << cfg, orchVars, concVars >>

\* the next input of the first run is stepped again
HReplay ==
  /\ hphase = "replay"
  /\ Len(hrun2) < Len(hinputs)
  /\ HarnessApply(hinputs[Len(hrun2) + 1])
  /\ hrun2' = Append(hrun2, [action |-> hlast'[1].action, text |-> hlast'[1].text])
  /\ UNCHANGED << hphase, hinputs, hrun1, hstate1 >>
  /\ UNCHANGED << cfg, orchVars, concVars >>

\* reset() at any point of a replay: a new first run starts
HRestart ==
  /\ hphase = "replay"
  /\ hphase' = "run"
  /\ hwrapper' = WrapperReset(hwrapper)
  /\ hallowed' = << >>
  /\ hinputs' = << >>
  /\ hrun1' = << >>
  /\ hrun2' = << >>
  /\ hstate1' = << >>
  /\ UNCHANGED hlast
  /\ UNCHANGED << cfg, orchVars, concVars >>

\* the wrapper as its constructor leaves it, for each wrapper and each
\* configuration block it can be given
InitWrap ==
  /\ cfg \in Configs
  /\ \E name \in WRAPPERS :
       /\ name # "keyword" => cfg.banned_keywords = << >>
       /\ name # "history" => cfg.k = {}
       /\ name # "query_budget" => cfg.max_queries = {}
       /\ hwrapper = get_wrapper(name, get_wrapper_config(cfg, name))
  /\ hphase = "run"
  /\ hinputs = << >>
  /\ hrun1 = << >>
  /\ hrun2 = << >>
  /\ hstate1 = << >>
  /\ hallowed = << >>
  /\ hlast = << >>
  /\ pc = "INIT"
  /\ req = NoRequest
  /\ prompt = << >>
  /\ wrapper_name = ""
  /\ wrapper = NoWrapper
  /\ max_calls = 0
  /\ raw_outputs = << >>
  /\ decisions_sequence = << >>
  /\ final_output = << >>
  /\ call_index = 0
  /\ response = NoResponse
  /\ traces = << >>
  /\ model_calls = 0
  /\ step_calls = 0
  /\ ConcIdle

\* step() is called in the first run
Drive == hphase = "run" /\ \E in \in HarnessInputs : HStep(in)

NextWrap ==
  \/ Drive
  \/ HReset
  \/ HReplay
  \/ HRestart

SpecWrap == InitWrap /\ [][NextWrap]_vars

(***************************************************************************)
(* Several requests at once (SpecConc).  query() is a coroutine on one     *)
(* event loop (uvicorn.run, main.py:259): a call runs without interruption *)
(* from its start, or from the return of an awaited model call, to its next *)
(* await (main.py:156) or its end.  `inflight` holds the locals of each    *)
(* call, `objects` the wrapper objects built so far; a call refers to its  *)
(* wrapper by its place in `objects`.  A call that has entered log_trace   *)
(* and not yet written is at LOGGING.                                      *)
(***************************************************************************)
\* the configurations of the concurrent runs: one banned keyword, a history
\* of one output, and the budget absent or zero
ConcConfigs ==
  [banned_keywords : { << << "A" >> >> }, k : { {1} }, max_queries : { {}, {0} }]

ConcPrompts == { << " " >>, << "a" >>, << "A" >> }

ConcRequests ==
  [prompt : ConcPrompts,
   wrapper_name : WRAPPERS \cup {"bogus"},
   max_queries : { {}, {1} }]

\* get_wrapper handing out an object built for an earlier request
AllocWrapperShared(objs, name, config) ==
  IF \E i \in 1..Len(objs) : objs[i].name = name
  THEN [objects |-> objs,
        ref |-> CHOOSE i \in 1..Len(objs) : objs[i].name = name]
  ELSE [objects |-> Append(objs, get_wrapper(name, config)),
        ref |-> Len(objs) + 1]

\* get_wrapper: cls(config) builds a new object at every call
AllocWrapper(objs, name, config) ==
  [objects |-> Append(objs, get_wrapper(name, config)), ref |-> Len(objs) + 1]

\* wrapper.step on the object a call refers to
ObjStep(objs, ref, p, out, idx) ==
  LET res == WrapperStep(objs[ref], p, out, idx)
  IN  [action |-> res.action, text |-> res.text,
       objects |-> [objs EXCEPT ![ref] = res.w]]

\* lines 185-217: the loop is left; the trace record and the response are
\* built and log_trace is entered
RunLeaveLoop(run, after, c, w, raw, ds, out, idx) ==
  [run EXCEPT
     !.pc = "LOGGING",
     !.after = after,
     !.raw_outputs = raw,
     !.decisions_sequence = ds,
     !.final_output = out,
     !.call_index = idx,
     !.pending = << TraceRecord(run.wrapper_name, c, run.prompt, raw, ds, out,
                                Len(raw), w) >>,
     !.reply = QueryResponse(out, LastDecision(ds),
                 DecisionSummary(run.wrapper_name, ds, Len(raw), run.max_calls),
                 Len(raw), raw, ds)]

\* lines 76-156: a call from its start to its first await, to log_trace or
\* to its end
RunStart(c, objs, r) ==
  LET name == ResolveWrapperName(r)
      p == Strip(r.prompt)
      begun == [RunIdle EXCEPT !.req = r, !.prompt = p, !.wrapper_name = name]
  IN  IF p = << >>
      THEN [run |-> [begun EXCEPT
                       !.pc = "SKIPPED",
                       !.response = QueryResponse(EMPTY_PROMPT_OUTPUT, "SKIP",
                                      << "no prompt" >>, 0, << >>, << >>)],
            objects |-> objs]
      ELSE IF name \notin WRAPPERS
      THEN [run |-> [begun EXCEPT !.pc = "REJECTED",
                                  !.response = ErrorResponse(500)],
            objects |-> objs]
      ELSE
        LET a == AllocWrapper(objs, name, get_wrapper_config(c, name))
            o1 == [a.objects EXCEPT ![a.ref] = WrapperReset(@)]
            mc == ResolveMaxCalls(c, name, r.max_queries)
            pre == ObjStep(o1, a.ref, p, << >>, 0)
            o2 == IF name = "keyword" THEN pre.objects ELSE o1
            base == [begun EXCEPT !.wref = a.ref, !.max_calls = mc]
        IN  IF name = "keyword" /\ pre.action = BLOCK
            THEN [run |-> [base EXCEPT
                             !.pc = "LOGGING",
                             !.after = "TERMINAL",
                             !.pending = << TraceRecord(name, c, p, << >>,
                                              << BLOCK >>, pre.text, 0,
                                              o2[a.ref]) >>,
                             !.reply = QueryResponse(pre.text, BLOCK,
                                         << "keyword blocked, no model call" >>,
                                         0, << >>, << BLOCK >>)],
                  objects |-> o2]
            ELSE IF 0 < mc
            THEN [run |-> [base EXCEPT !.pc = "CALLING", !.model_calls = 1],
                  objects |-> o2]
            ELSE [run |-> RunLeaveLoop(base, "NOCALL", c, o2[a.ref],
                                       << >>, << >>, << >>, 0),
                  objects |-> o2]

\* lines 156-217: the awaited model call of a call returns `out`
RunResume(c, objs, run, out) ==
  LET raw == Append(run.raw_outputs, out)
      res == ObjStep(objs, run.wref, run.prompt, out, run.call_index)
      ds == RecordDecision(run.decisions_sequence, res.action)
      w == res.objects[run.wref]
  IN  [objects |-> res.objects,
       run |->
         IF res.action \in {ALLOW, BLOCK, MODIFY}
         THEN RunLeaveLoop(run, "TERMINAL", c, w, raw, ds, res.text,
                           run.call_index)
         ELSE IF run.call_index + 1 >= run.max_calls
         THEN RunLeaveLoop(run, "EXHAUSTED", c, w, raw, ds, LastRawOutput(raw),
                           run.call_index + 1)
         ELSE [run EXCEPT !.raw_outputs = raw,
                          !.decisions_sequence = ds,
                          !.call_index = @ + 1,
                          !.model_calls = @ + 1]]

\* lines 162-163: the awaited model call raises
RunFail(run) == [run EXCEPT !.pc = "FAILED", !.response = ErrorResponse(502)]

\* logger.py:50-51 and main.py:219-226: the line is written, the call returns
RunLogged(run) ==
  [run EXCEPT !.pc = run.after,
              !.response = run.reply,
              !.written = run.pending,
              !.pending = << >>]

\* the event loop once log_trace is entered, were log_trace to await
LoopAfterAwaitingLog(id, state) == 0

\* who holds the event loop once a call has run to `state`: log_trace is a
\* plain function, so a call at LOGGING still runs; at an await or at its
\* end the loop is free
LoopAfter(id, state) == IF state = "LOGGING" THEN id ELSE 0

InitConc ==
  /\ cfg \in ConcConfigs
  /\ pc = "INIT"
  /\ req = NoRequest
  /\ prompt = << >>
  /\ wrapper_name = ""
  /\ wrapper = NoWrapper
  /\ max_calls = 0
  /\ raw_outputs = << >>
  /\ decisions_sequence = << >>
  /\ final_output = << >>
  /\ call_index = 0
  /\ response = NoResponse
  /\ traces = << >>
  /\ model_calls = 0
  /\ step_calls = 0
  /\ HarnessIdle
  /\ ConcIdle

\* a request arrives and its call runs to its first await, to log_trace or
\* to its end
ConcReceive ==
  /\ running = 0
  /\ \E id \in ReqIds :
       /\ inflight[id].pc = "INIT"
       /\ \A j \in ReqIds : j < id => inflight[j].pc # "INIT"
       /\ \E r \in ConcRequests :
            LET st == RunStart(cfg, objects, r)
            IN  /\ inflight' = [inflight EXCEPT ![id] = st.run]
                /\ objects' = st.objects
                /\ running' = LoopAfter(id, st.run.pc)
  /\ UNCHANGED trace_file
  /\ UNCHANGED << cfg, orchVars, harnessVars >>

\* the awaited model call of one request returns
ConcComplete ==
  /\ running = 0
  /\ \E id \in ReqIds :
       /\ inflight[id].pc = "CALLING"
       /\ \E out \in ModelOutputs :
            LET st == RunResume(cfg, objects, inflight[id], out)
            IN  /\ inflight' = [inflight EXCEPT ![id] = st.run]
                /\ objects' = st.objects
                /\ running' = LoopAfter(id, st.run.pc)
  /\ UNCHANGED trace_file
  /\ UNCHANGED << cfg, orchVars, harnessVars >>

\* the awaited model call of one request raises
ConcFail ==
  /\ running = 0
  /\ \E id \in ReqIds :
       /\ inflight[id].pc = "CALLING"
       /\ inflight' = [inflight EXCEPT ![id] = RunFail(@)]
  /\ UNCHANGED << objects, running, trace_file >>
  /\ UNCHANGED << cfg, orchVars, harnessVars >>

\* the running call writes its line and returns
ConcLog ==
  /\ \E id \in ReqIds :
       /\ running = id
       /\ inflight[id].pc = "LOGGING"
       /\ trace_file' = log_trace(trace_file, inflight[id].pending[1])
       /\ inflight' = [inflight EXCEPT ![id] = RunLogged(@)]
       /\ running' = LoopAfter(id, inflight[id].after)
  /\ UNCHANGED objects
  /\ UNCHANGED << cfg, orchVars, harnessVars >>

NextConc ==
  \/ ConcReceive
  \/ ConcComplete
  \/ ConcFail
  \/ ConcLog

SpecConc == InitConc /\ [][NextConc]_vars

(***************************************************************************)
(* Properties of the request driver (Spec).                                *)
(***************************************************************************)
\* text with no character other than whitespace
IsBlank(s) == \A i \in 1..Len(s) : s[i] \in Whitespace

\* `text` holds `kw` in some letter case: their lower-case forms match
HoldsAnyCase(text, kw) == IsSubstr(Lower(kw), Lower(text))

\* the request was answered with the keyword wrapper's block and no model call
BlockedWithoutCall ==
  /\ pc = "TERMINAL"
  /\ response.kind = "ok"
  /\ response.wrapper_decision = BLOCK
  /\ response.decisions_sequence = << BLOCK >>
  /\ response.final_output = BLOCK_MESSAGE
  /\ response.model_call_count = 0
  /\ response.raw_outputs = << >>
  /\ model_calls = 0

\* C1 as stated: with the keyword wrapper, a non-empty prompt that holds a
\* configured banned keyword in any letter case ends in BLOCK, decision
\* sequence [BLOCK], the fixed block message and no model call.
C1_BlockOnRawPrompt ==
  ( /\ pc # "INIT"
    /\ wrapper_name = "keyword"
    /\ ~IsBlank(req.prompt)
    /\ \E i \in 1..Len(cfg.banned_keywords) :
         HoldsAnyCase(req.prompt, cfg.banned_keywords[i]) )
  => BlockedWithoutCall

\* C1 amended: the same, for a prompt that still holds the keyword once its
\* leading and trailing whitespace is stripped.
C1_BlockOnStrippedPrompt ==
  ( /\ pc # "INIT"
    /\ wrapper_name = "keyword"
    /\ ~IsBlank(req.prompt)
    /\ \E i \in 1..Len(cfg.banned_keywords) :
         HoldsAnyCase(Strip(req.prompt), cfg.banned_keywords[i]) )
  => BlockedWithoutCall

\* C1 witness: an upper-case prompt blocked on a keyword configured in
\* upper case, padded with whitespace, with no model call.
C1_Witness ==
  /\ BlockedWithoutCall
  /\ wrapper_name = "keyword"
  /\ cfg.banned_keywords = << << "A" >> >>
  /\ req.prompt = << "A", " " >>
  /\ Len(traces) = 1

\* C2: a request whose prompt is empty once stripped is answered SKIP with
\* "[Empty prompt]", no model call, empty raw outputs and decisions, and no
\* wrapper step, whatever wrapper it names.
C2_EmptyPromptSkipped ==
  (pc # "INIT" /\ IsBlank(req.prompt))
  => /\ pc = "SKIPPED"
     /\ response.kind = "ok"
     /\ response.wrapper_decision = "SKIP"
     /\ response.final_output = EMPTY_PROMPT_OUTPUT
     /\ response.model_call_count = 0
     /\ response.raw_outputs = << >>
     /\ response.decisions_sequence = << >>
     /\ model_calls = 0
     /\ step_calls = 0
     /\ wrapper = NoWrapper

\* C2 witness: a whitespace-only prompt naming the keyword wrapper is skipped.
C2_Witness ==
  /\ pc = "SKIPPED"
  /\ req.prompt = << " ", " " >>
  /\ req.wrapper_name = "keyword"
  /\ response.wrapper_decision = "SKIP"

\* the request got as far as resolving its call budget
BudgetResolved == pc \in {"CALLING", "TERMINAL", "EXHAUSTED", "FAILED", "NOCALL"}

\* C3 as stated: once the budget N is resolved, the model calls made so far
\* never exceed N, and the call count written to the trace and returned in
\* the response is the number of model calls performed.
C3_CallsWithinBudget ==
  BudgetResolved
  => /\ model_calls <= max_calls
     /\ \A i \in 1..Len(traces) : traces[i].total_model_calls = model_calls
     /\ response.kind = "ok" => response.model_call_count = model_calls

\* C4: when the step on call N (the budget) returns REQUERY, the request is
\* exhausted: the final output is the last raw output, N calls were made, the
\* decisions are N REQUERYs and the reported decision is REQUERY.
C4_ExhaustedReportsRequery ==
  ( /\ BudgetResolved
    /\ Len(decisions_sequence) = max_calls
    /\ max_calls >= 1
    /\ decisions_sequence[max_calls] = REQUERY )
  => /\ pc = "EXHAUSTED"
     /\ model_calls = max_calls
     /\ Len(raw_outputs) = max_calls
     /\ final_output = raw_outputs[max_calls]
     /\ decisions_sequence = [i \in 1..max_calls |-> REQUERY]
     /\ response.kind = "ok"
     /\ response.final_output = raw_outputs[max_calls]
     /\ response.wrapper_decision = REQUERY
     /\ response.decisions_sequence = decisions_sequence
     /\ response.model_call_count = max_calls
     /\ Len(traces) = 1
     /\ traces[1].wrapper_decisions = decisions_sequence

\* C4 witness: a history request exhausted after three calls whose last raw
\* output is not the empty text.
C4_Witness ==
  /\ pc = "EXHAUSTED"
  /\ max_calls = 3
  /\ Len(decisions_sequence) = 3
  /\ final_output = << " " >>
  /\ response.wrapper_decision = REQUERY

\* C5: a failed model call ends the request at once: the caller gets the
\* upstream error, no ALLOW/BLOCK/MODIFY result, no trace record is written,
\* and no model call or wrapper step follows the failing call.
C5_FailureAborts ==
  pc = "FAILED"
  => /\ response = ErrorResponse(502)
     /\ traces = << >>
     /\ final_output = << >>
     /\ model_calls = Len(raw_outputs) + 1
     /\ Len(decisions_sequence) = Len(raw_outputs)
     /\ step_calls = Len(raw_outputs) + (IF wrapper_name = "keyword" THEN 1 ELSE 0)
     /\ \A i \in 1..Len(decisions_sequence) : decisions_sequence[i] = REQUERY

\* C5 witness: the third model call of a request fails after two REQUERYs.
C5_Witness ==
  /\ pc = "FAILED"
  /\ model_calls = 3
  /\ decisions_sequence = << REQUERY, REQUERY >>
  /\ response.kind = "error"

\* C6 as stated: a request that completes (terminal action, pre-check BLOCK,
\* budget exhaustion) or is skipped appends exactly one trace record, and no
\* request appends more than one.
C6_OneTracePerRequest ==
  /\ Len(traces) <= 1
  /\ pc \in {"TERMINAL", "EXHAUSTED", "SKIPPED"} => Len(traces) = 1

(***************************************************************************)
(* Properties of the wrappers driven directly (SpecWrap).                  *)
(***************************************************************************)
\* the first two steps of the first run gave the same output, not blank
SameOutputTwice ==
  /\ hwrapper.name = "history"
  /\ Len(hrun1) >= 2
  /\ hinputs[1].output = hinputs[2].output
  /\ ~IsBlank(hinputs[1].output)

\* C7 as stated: for any configured k, a freshly reset History wrapper
\* stepped twice with the same non-blank output returns ALLOW, then REQUERY.
C7_AllowThenRequery ==
  SameOutputTwice => hrun1[1].action = ALLOW /\ hrun1[2].action = REQUERY

\* C7 amended: the same, for a configured k of at least 1.
C7_AllowThenRequeryPositiveK ==
  (SameOutputTwice /\ hwrapper.k >= 1)
  => hrun1[1].action = ALLOW /\ hrun1[2].action = REQUERY

\* C7 witness: k = 1, the same padded output twice, ALLOW then REQUERY.
C7_Witness ==
  /\ SameOutputTwice
  /\ hwrapper.k = 1
  /\ hinputs[1].output = << "A", " " >>
  /\ hrun1[1].action = ALLOW
  /\ hrun1[2].action = REQUERY

\* the last k entries of a sequence
LastK(seq, k) ==
  IF k <= 0 THEN << >>
  ELSE SubSeq(seq, Max(1, Len(seq) - k + 1), Len(seq))

\* C8 as stated: after any steps and resets the History buffer holds at most
\* k entries, k the configured capacity, and equals the k most recently
\* allowed stripped outputs in arrival order (the oldest evicted first).
C8_BufferIsLastK ==
  (hwrapper.name = "history" /\ hlast # << >>)
  => /\ Len(hwrapper.buffer) <= hwrapper.k
     /\ hwrapper.buffer = LastK(hallowed, hwrapper.k)

\* C9: a History step on a blank output returns REQUERY and leaves the
\* buffer as it was, and so does a step on an output whose stripped form is
\* already in the buffer.
C9_RequeryKeepsBuffer ==
  (hwrapper.name = "history" /\ hlast # << >>)
  => LET last == hlast[1]
         blank == IsBlank(last.input.output)
         repeated == InList(Strip(last.input.output), last.before)
     IN  /\ (blank \/ repeated) => last.action = REQUERY
         /\ last.action = REQUERY => last.after = last.before /\ (blank \/ repeated)

\* C9 witness: a repeated output is refused while the buffer holds it, and
\* a blank one is refused on a non-empty buffer.
C9_Witness ==
  /\ hwrapper.name = "history"
  /\ hlast # << >>
  /\ hlast[1].action = REQUERY
  /\ hlast[1].input.output = << " ", "a" >>
  /\ hlast[1].before = << << "a" >> >>
  /\ hlast[1].after = << << "a" >> >>

\* C10: for each wrapper, a run from a fresh or reset wrapper, then reset(),
\* then the same inputs again give the same actions, the same texts and, at
\* the end, the same get_state() as the first run.
C10_ResetReplays ==
  hphase = "replay"
  => /\ \A i \in 1..Len(hrun2) : hrun2[i] = hrun1[i]
     /\ Len(hrun2) = Len(hrun1) => << WrapperGetState(hwrapper) >> = hstate1

\* C10 witness: a History replay of two steps, complete, that left a
\* non-empty buffer behind, after a REQUERY on a repeated output.
C10_Witness ==
  /\ hphase = "replay"
  /\ hwrapper.name = "history"
  /\ Len(hrun2) = 2
  /\ hrun2[1].action = ALLOW
  /\ hrun2[2].action = REQUERY
  /\ hwrapper.buffer # << >>

(***************************************************************************)
(* Further properties of the request driver (Spec).                        *)
(***************************************************************************)
\* the prompt as typed holds none of the configured keywords, in any case
HoldsNoKeyword ==
  \A i \in 1..Len(cfg.banned_keywords) :
    ~HoldsAnyCase(req.prompt, cfg.banned_keywords[i])

\* C11 as stated: with the keyword wrapper, a non-empty prompt holding no
\* banned keyword passes the pre-check (a step was made and the request is
\* not blocked) and the request goes on to at least one model call.
C11_AllowedPromptCallsModel ==
  ( /\ pc # "INIT"
    /\ wrapper_name = "keyword"
    /\ ~IsBlank(req.prompt)
    /\ HoldsNoKeyword )
  => /\ step_calls >= 1
     /\ ~(response.kind = "ok" /\ response.wrapper_decision = BLOCK)
     /\ model_calls >= 1

\* the last raw output is not blank and every one before it is
BlanksThenText(raw) ==
  /\ raw # << >>
  /\ ~IsBlank(raw[Len(raw)])
  /\ \A i \in 1..(Len(raw) - 1) : IsBlank(raw[i])

\* C12: with the history wrapper, m blank outputs followed by a non-blank
\* one (m below the budget) give m REQUERYs then ALLOW, m + 1 model calls
\* and the non-blank output, as returned, as final output; with k = 3 and
\* two blank outputs: [REQUERY, REQUERY, ALLOW], three calls.
C12_BlanksThenAllow ==
  (wrapper_name = "history" /\ BlanksThenText(raw_outputs))
  => LET n == Len(raw_outputs)
     IN  /\ pc = "TERMINAL"
         /\ n <= max_calls
         /\ decisions_sequence =
              [i \in 1..n |-> IF i < n THEN REQUERY ELSE ALLOW]
         /\ model_calls = n
         /\ final_output = raw_outputs[n]
         /\ response.kind = "ok"
         /\ response.decisions_sequence = decisions_sequence
         /\ response.model_call_count = n
         /\ response.final_output = raw_outputs[n]
         /\ response.wrapper_decision = ALLOW

\* C12 witness: k = 3 (the default), outputs "", " ", then a padded word.
C12_Witness ==
  /\ pc = "TERMINAL"
  /\ wrapper_name = "history"
  /\ cfg.k = {}
  /\ max_calls = DefaultK + 2
  /\ raw_outputs = << << >>, << " " >>, << "A", " " >> >>
  /\ decisions_sequence = << REQUERY, REQUERY, ALLOW >>
  /\ response.model_call_count = 3
  /\ response.final_output = << "A", " " >>

\* the configured default budget
ConfiguredDefault == Get(cfg.max_queries, DefaultMaxQueries)

\* the caller's max_queries is given and lies in [1, 10]
UserLimitInRange ==
  \E u \in req.max_queries : 1 <= u /\ u <= 10

\* C13: the budget, resolved once before the loop, is for query_budget the
\* caller's max_queries when it lies in [1,10] and the configured default
\* otherwise; for history at least k + 2; for noop and keyword the
\* configured default whatever the caller supplied.
C13_BudgetResolution ==
  BudgetResolved
  => /\ wrapper_name = "query_budget" /\ UserLimitInRange
          => req.max_queries = {max_calls}
     /\ wrapper_name = "query_budget" /\ ~UserLimitInRange
          => max_calls = ConfiguredDefault
     /\ wrapper_name = "history"
          => /\ max_calls >= Get(cfg.k, DefaultK) + 2
             /\ max_calls >= ConfiguredDefault
             /\ max_calls \in {Get(cfg.k, DefaultK) + 2, ConfiguredDefault}
     /\ wrapper_name \in {"noop", "keyword"} => max_calls = ConfiguredDefault

\* C13 witness: a query_budget request whose limit of 10 is taken over a
\* configured 3, and is still the budget once the request has ended.
C13_Witness ==
  /\ pc = "TERMINAL"
  /\ wrapper_name = "query_budget"
  /\ req.max_queries = {10}
  /\ cfg.max_queries = {3}
  /\ max_calls = 10

\* the request was blocked by the keyword pre-check
PreBlocked == pc = "TERMINAL" /\ raw_outputs = << >>

\* C14 as stated: for every wrapper and configuration the resolved budget is
\* at least 1, so a request that is neither skipped nor pre-blocked makes at
\* least one model call and reports an action a wrapper step returned.
C14_BudgetAtLeastOne ==
  BudgetResolved
  => /\ max_calls >= 1
     /\ ~PreBlocked => model_calls >= 1
     /\ (pc \in {"TERMINAL", "EXHAUSTED", "NOCALL"} /\ ~PreBlocked)
          => /\ decisions_sequence # << >>
             /\ response.wrapper_decision = decisions_sequence[Len(decisions_sequence)]

\* the decisions a wrapper takes, from state w on, on raw[i], raw[i+1], ...
RECURSIVE DecisionsOn(_, _, _, _)
DecisionsOn(w, p, raw, i) ==
  IF i > Len(raw) THEN << >>
  ELSE LET res == WrapperStep(w, p, raw[i], i - 1)
       IN  << res.action >> \o DecisionsOn(res.w, p, raw, i + 1)

\* one action per model call, the i-th the decision on the i-th raw output
OneActionPerCall(raw, ds, count) ==
  /\ Len(ds) = Len(raw)
  /\ count = Len(raw)
  /\ count = model_calls
  /\ ds = DecisionsOn(
            WrapperReset(get_wrapper(wrapper_name,
                                     get_wrapper_config(cfg, wrapper_name))),
            prompt, raw, 1)

\* C18 as stated: in every response and trace record the decision sequence
\* has one action per model call: as long as the raw outputs and the call
\* count, its i-th action the wrapper's decision on the i-th raw output.
C18_OneActionPerCall ==
  /\ (response.kind = "ok" /\ pc # "SKIPPED")
       => OneActionPerCall(response.raw_outputs, response.decisions_sequence,
                           response.model_call_count)
  /\ pc = "SKIPPED"
       => /\ response.decisions_sequence = << >>
          /\ response.raw_outputs = << >>
          /\ response.model_call_count = 0
  /\ \A j \in 1..Len(traces) :
       OneActionPerCall(traces[j].raw_model_outputs, traces[j].wrapper_decisions,
                        traces[j].total_model_calls)

\* C18 amended: the same for every request the keyword pre-check did not
\* block; a pre-blocked request reports [BLOCK] with no raw output and a
\* call count of 0.
C18_OneActionPerCallUnlessPreBlocked ==
  IF PreBlocked
  THEN /\ response.decisions_sequence = << BLOCK >>
       /\ response.raw_outputs = << >>
       /\ response.model_call_count = 0
       /\ model_calls = 0
       /\ Len(traces) = 1
       /\ traces[1].wrapper_decisions = << BLOCK >>
       /\ traces[1].raw_model_outputs = << >>
       /\ traces[1].total_model_calls = 0
  ELSE C18_OneActionPerCall

\* C18 witness: a traced history request of three calls, three decisions.
C18_Witness ==
  /\ pc = "TERMINAL"
  /\ wrapper_name = "history"
  /\ Len(traces) = 1
  /\ Len(traces[1].raw_model_outputs) = 3
  /\ traces[1].wrapper_decisions = << REQUERY, REQUERY, ALLOW >>
  /\ response.model_call_count = 3

\* C20: a step of the loop that returns ALLOW, BLOCK or MODIFY ends the
\* loop with the step's text as final output and no further model call; a
\* noop request with a budget of at least 1 makes exactly one model call,
\* decides [ALLOW] and returns the raw output unchanged.
C20_TerminalStepEndsLoop ==
  /\ (decisions_sequence # << >>
      /\ decisions_sequence[Len(decisions_sequence)] \in {ALLOW, BLOCK, MODIFY})
       => LET n == Len(decisions_sequence)
          IN  /\ pc = "TERMINAL"
              /\ model_calls = n
              /\ Len(raw_outputs) = n
              /\ final_output = IF decisions_sequence[n] = ALLOW
                                THEN raw_outputs[n] ELSE BLOCK_MESSAGE
              /\ response.kind = "ok"
              /\ response.final_output = final_output
              /\ Len(traces) = 1
              /\ traces[1].final_output = final_output
  /\ (wrapper_name = "noop" /\ BudgetResolved /\ max_calls >= 1)
       => /\ model_calls = 1
          /\ pc \in {"CALLING", "TERMINAL", "FAILED"}
          /\ pc = "TERMINAL"
               => /\ decisions_sequence = << ALLOW >>
                  /\ response.decisions_sequence = << ALLOW >>
                  /\ Len(raw_outputs) = 1
                  /\ response.final_output = raw_outputs[1]

\* C20 witness: a noop request answered with the padded raw output as it came.
C20_Witness ==
  /\ pc = "TERMINAL"
  /\ wrapper_name = "noop"
  /\ raw_outputs = << << "A", " " >> >>
  /\ response.final_output = << "A", " " >>
  /\ response.decisions_sequence = << ALLOW >>
  /\ model_calls = 1

\* a step of the request from one lifecycle state to the next, as listed;
\* NOCALL is a request ended with a reported ALLOW, REJECTED one refused
\* for its wrapper name before any lifecycle state is entered
LifecycleStep ==
  LET last == decisions_sequence'[Len(decisions_sequence')]
  IN  \/ pc = "INIT" /\ pc' \in {"SKIPPED", "CALLING", "REJECTED"}
      \/ pc = "INIT" /\ pc' = "TERMINAL"
           /\ response'.decisions_sequence = << BLOCK >> /\ model_calls' = 0
      \/ pc = "CALLING" /\ pc' = "CALLING"
           /\ last = REQUERY /\ call_index' < max_calls
      \/ pc = "CALLING" /\ pc' = "EXHAUSTED"
           /\ last = REQUERY /\ call_index' >= max_calls
      \/ pc = "CALLING" /\ pc' = "TERMINAL" /\ last \in {ALLOW, BLOCK, MODIFY}
      \/ pc = "CALLING" /\ pc' = "FAILED"

\* C17 as stated: the lifecycle takes only the listed transitions, the four
\* end states are absorbing, and every action of a decision sequence before
\* its last is REQUERY.
C17_Lifecycle ==
  [][ /\ LifecycleStep
      /\ \A i \in 1..(Len(decisions_sequence') - 1) :
           decisions_sequence'[i] = REQUERY ]_vars

(***************************************************************************)
(* Further properties of the wrappers driven directly (SpecWrap).          *)
(***************************************************************************)
\* C15 as stated: the k a History wrapper reports through get_state() is
\* never negative, whatever k is configured.
C15_KNotNegative ==
  hwrapper.name = "history" => HistoryGetState(hwrapper).k >= 0

(***************************************************************************)
(* Properties of several requests served at once (SpecConc).               *)
(***************************************************************************)
\* a call that has entered log_trace writes and returns
Settle(st) ==
  IF st.run.pc = "LOGGING"
  THEN [run |-> RunLogged(st.run), objects |-> st.objects]
  ELSE st

\* a call served alone, fed the model outputs outs[i], outs[i+1], ...
RECURSIVE FeedSolo(_, _, _, _)
FeedSolo(c, st, outs, i) ==
  IF i > Len(outs) \/ st.run.pc # "CALLING" THEN st
  ELSE FeedSolo(c, Settle(RunResume(c, st.objects, st.run, outs[i])), outs, i + 1)

\* request r served alone, with no other wrapper object in existence, its
\* model calls returning `outs` and then, if `failed`, raising
SoloRun(c, r, outs, failed) ==
  LET st == FeedSolo(c, Settle(RunStart(c, << >>, r)), outs, 1)
  IN  [run |-> IF failed THEN RunFail(st.run) ELSE st.run,
       state |-> IF st.run.wref = 0 THEN << >>
                 ELSE << WrapperGetState(st.objects[st.run.wref]) >>]

\* C16: however the requests in flight interleave at their model calls,
\* each has a wrapper object of its own, and its decision sequence, final
\* output, call count, response, trace record and wrapper state are those
\* of the same request served alone with the same model outputs.
C16_RunsAsIfAlone ==
  /\ \A i, j \in ReqIds :
       (i # j /\ inflight[i].wref # 0) => inflight[i].wref # inflight[j].wref
  /\ \A id \in ReqIds :
       inflight[id].pc \notin {"INIT", "LOGGING"}
       => LET run == inflight[id]
              solo == SoloRun(cfg, run.req, run.raw_outputs, run.pc = "FAILED")
          IN  /\ run.pc = solo.run.pc
              /\ run.decisions_sequence = solo.run.decisions_sequence
              /\ run.final_output = solo.run.final_output
              /\ run.model_calls = solo.run.model_calls
              /\ run.response = solo.run.response
              /\ run.written = solo.run.written
              /\ run.wref # 0
                   => << WrapperGetState(objects[run.wref]) >> = solo.state

\* C16 witness: two history requests in flight together, the second served
\* from start to end while the first awaits the model, and both allowed the
\* same output.
C16_Witness ==
  /\ inflight[1].wrapper_name = "history"
  /\ inflight[2].wrapper_name = "history"
  /\ inflight[1].pc = "TERMINAL"
  /\ inflight[2].pc = "TERMINAL"
  /\ inflight[1].raw_outputs = << << " " >>, << "a" >> >>
  /\ inflight[1].decisions_sequence = << REQUERY, ALLOW >>
  /\ inflight[2].raw_outputs = << << "a" >> >>
  /\ inflight[2].decisions_sequence = << ALLOW >>
  /\ Len(trace_file) = 2
  /\ << trace_file[1] >> = inflight[2].written
  /\ << trace_file[2] >> = inflight[1].written

\* the requests inside log_trace
Logging == { id \in ReqIds : inflight[id].pc = "LOGGING" }

\* the requests that have written their trace line
Logged == { id \in ReqIds : inflight[id].written # << >> }

\* C19: at most one request is inside log_trace at a time; the trace file
\* has one line for each request that has written, each line the whole
\* record of one of them, and a request that has ended with a response
\* built from the loop or the pre-check has written.
C19_TraceWritesSerialized ==
  /\ Cardinality(Logging) <= 1
  /\ \A id \in Logging : running = id
  /\ Len(trace_file) = Cardinality(Logged)
  /\ \E f \in [1..Len(trace_file) -> ReqIds] :
       /\ \A i, j \in 1..Len(trace_file) : f[i] = f[j] => i = j
       /\ \A i \in 1..Len(trace_file) : inflight[f[i]].written = << trace_file[i] >>
  /\ \A id \in ReqIds :
       inflight[id].pc \in {"TERMINAL", "EXHAUSTED", "NOCALL"} <=> id \in Logged

\* C19 witness: the request that came second has written its line and
\* ended; the first, in flight all the while, is now inside log_trace.
C19_Witness ==
  /\ inflight[1].pc = "LOGGING"
  /\ inflight[1].raw_outputs # << >>
  /\ inflight[2].pc \in {"TERMINAL", "EXHAUSTED"}
  /\ inflight[2].raw_outputs # << >>
  /\ trace_file = inflight[2].written

(***************************************************************************)
(* Properties of single wrappers inside a request (Spec).                  *)
(***************************************************************************)
\* a QueryBudget wrapper of this configuration with its counter at `calls`
QueryBudgetAt(calls) ==
  [QueryBudgetWrapper(get_wrapper_config(cfg, "query_budget")) EXCEPT !.calls = calls]

\* C21: whatever its counter, the output and the call index, the
\* QueryBudget step returns ALLOW with the output unchanged and sets the
\* counter to call_index + 1; so the call_count in the wrapper state a
\* QueryBudget request traces equals the model calls the request made.
C21_QueryBudgetCountsCalls ==
  wrapper_name = "query_budget"
  => /\ \A calls \in 0..2, idx \in 0..2, out \in ModelOutputs :
          LET res == WrapperStep(QueryBudgetAt(calls), prompt, out, idx)
          IN  /\ res.action = ALLOW
              /\ res.text = out
              /\ WrapperGetState(res.w).call_count = idx + 1
              /\ WrapperGetState(res.w).max_queries =
                   WrapperGetState(QueryBudgetAt(calls)).max_queries
     /\ \A i \in 1..Len(decisions_sequence) : decisions_sequence[i] = ALLOW
     /\ \A j \in 1..Len(traces) :
          /\ traces[j].wrapper_state.call_count = Len(raw_outputs)
          /\ traces[j].wrapper_state.call_count = traces[j].total_model_calls
          /\ traces[j].wrapper_state.call_count = model_calls

\* C21 witness: a QueryBudget request answered after one model call, its
\* trace showing call_count 1.
C21_Witness ==
  /\ pc = "TERMINAL"
  /\ wrapper_name = "query_budget"
  /\ model_calls = 1
  /\ Len(traces) = 1
  /\ traces[1].wrapper_state.call_count = 1
  /\ decisions_sequence = << ALLOW >>

\* C22 as stated: a request naming a wrapper that is none of the four is
\* answered with an error, with no model call and no trace record,
\* whatever its prompt.
C22_UnknownWrapperIsError ==
  (pc # "INIT" /\ req.wrapper_name \notin WRAPPERS \cup {""})
  => /\ response.kind = "error"
     /\ model_calls = 0
     /\ traces = << >>

\* C23: in a History request the buffer is empty until the first ALLOW,
\* which ends the request; every REQUERY answers a raw output that is empty
\* once stripped; the traced buffer holds at most one entry.
C23_HistoryBufferInRequest ==
  (wrapper_name = "history" /\ BudgetResolved)
  => /\ Len(decisions_sequence) = Len(raw_outputs)
     /\ \A i \in 1..Len(decisions_sequence) :
          /\ decisions_sequence[i] = REQUERY <=> IsBlank(raw_outputs[i])
          /\ decisions_sequence[i] \in {REQUERY, ALLOW}
          /\ decisions_sequence[i] = ALLOW => (i = Len(decisions_sequence)
                                               /\ pc = "TERMINAL")
     /\ pc # "TERMINAL" => wrapper.buffer = << >>
     /\ Len(wrapper.buffer) <= 1
     /\ \A j \in 1..Len(traces) :
          /\ Len(traces[j].wrapper_state.buffer) <= 1
          /\ traces[j].wrapper_state.buffer = wrapper.buffer
          /\ pc # "TERMINAL" => traces[j].wrapper_state.buffer = << >>

\* C23 witness: two empty outputs requeried, the third allowed and alone in
\* the traced buffer.
C23_Witness ==
  /\ pc = "TERMINAL"
  /\ wrapper_name = "history"
  /\ decisions_sequence = << REQUERY, REQUERY, ALLOW >>
  /\ Len(traces) = 1
  /\ traces[1].wrapper_state.buffer = << << "a" >> >>

\* C24 as stated: a Keyword request that passes the pre-check and whose
\* model call does not fail makes exactly one model call, decides [ALLOW]
\* and returns that raw output; BLOCK is in a Keyword decision sequence
\* only with zero model calls.
C24_KeywordPassesThenAllows ==
  wrapper_name = "keyword"
  => /\ (pc \in {"TERMINAL", "EXHAUSTED", "NOCALL"} /\ ~PreBlocked)
          => /\ model_calls = 1
             /\ decisions_sequence = << ALLOW >>
             /\ Len(raw_outputs) = 1
             /\ final_output = raw_outputs[1]
             /\ response.wrapper_decision = ALLOW
     /\ (response.kind = "ok" /\ InList(BLOCK, response.decisions_sequence))
          => model_calls = 0

\* C25: a QueryBudget request with a resolved budget of at least 1 makes
\* exactly one model call whatever the budget is, and when the call
\* succeeds decides [ALLOW] and returns the raw output; the budget shows
\* only in the decision summary.
C25_QueryBudgetOneCall ==
  (wrapper_name = "query_budget" /\ BudgetResolved /\ max_calls >= 1)
  => /\ model_calls = 1
     /\ pc \in {"CALLING", "TERMINAL", "FAILED"}
     /\ pc = "TERMINAL"
          => /\ Len(raw_outputs) = 1
             /\ decisions_sequence = << ALLOW >>
             /\ final_output = raw_outputs[1]
             /\ response.final_output = raw_outputs[1]
             /\ response.model_call_count = 1
             /\ response.decision_summary = << "query budget", max_calls, 1 >>

\* C25 witness: a caller's limit of 10 is the budget; one call is made and
\* the summary shows the 10.
C25_Witness ==
  /\ pc = "TERMINAL"
  /\ wrapper_name = "query_budget"
  /\ req.max_queries = {10}
  /\ max_calls = 10
  /\ model_calls = 1
  /\ response.decision_summary = << "query budget", 10, 1 >>
  /\ response.final_output = << "A", " " >>

(***************************************************************************)
(* Termination of a request.                                               *)
(***************************************************************************)
\* the request has been answered, with a response or an error
Ended == pc \notin {"INIT", "CALLING"}

\* a request is received and every awaited model call returns or raises
SpecLive == Spec /\ WF_vars(Next)

\* under SpecLive the request is answered in the end
RequestEnds == <>Ended

\* C26 as stated: the loop goes on only by a REQUERY that raises the call
\* index, which stays below the budget N while a call is awaited, and a
\* request that has been served ends in one of TERMINAL, EXHAUSTED, SKIPPED
\* or FAILED having made at most N model calls.
C26_EndsWithinBudget ==
  /\ pc = "CALLING"
       => /\ call_index < max_calls
          /\ model_calls = call_index + 1
          /\ Len(raw_outputs) = call_index
          /\ \A i \in 1..Len(decisions_sequence) : decisions_sequence[i] = REQUERY
  /\ (Ended /\ pc # "REJECTED")
       => /\ pc \in {"TERMINAL", "EXHAUSTED", "SKIPPED", "FAILED"}
          /\ BudgetResolved => model_calls <= max_calls

====
